---- MODULE Spec2Model ----
(***************************************************************************)
(* Model of trends/library.py: the transformation pipeline, the windowing  *)
(* of a TopicSeries, reference sizing, the Library with its two labelled   *)
(* collections, and the pickle-backed load / save / merge functions.       *)
(*                                                                         *)
(* Python values are represented as follows.                               *)
(*   - a list is a sequence; Python's 0-based index i is position i + 1;   *)
(*   - a list object held in an attribute is a reference into `heap`, so   *)
(*     that two attributes bound to the same list object share its         *)
(*     contents;                                                           *)
(*   - a dict is a function from key strings to values;                    *)
(*   - a point of a series is an integer until unit_normalization divides  *)
(*     it; from there on it is an exact rational <<num, den>>, den > 0     *)
(*     (rounding is not modelled);                                         *)
(*   - a number held in a config dict is such a rational too, so that the  *)
(*     default alpha of 1.2 is a value like the others;                    *)
(*   - math.log10(x) of a rational x > 0 is the term [log10 |-> x]: log10  *)
(*     is injective, so two terms are equal exactly when the numbers are;  *)
(*   - the outcome of a call is a record whose field exc names the class   *)
(*     of the exception it raised, "none" when it returned.                *)
(***************************************************************************)
EXTENDS Integers, Sequences, FiniteSets, TLC

\* ------------------------------------------------------------- bounds
\* longest raw series handed to the pure functions
MaxLen == 4
\* largest requested window length / reference_length / n_smooth
MaxWidth == 5
\* largest integral alpha exponent the callers pass
MaxAlpha == 3
\* add_series is called while the list objects hold fewer series than this
MaxStored == 3

\* raw points of the series handed to the pure functions (either sign, zero)
Points == {-2, 0, 1, 3}
\* the raw series handed to Library.add_series: the empty one, and series
\* with a zero, a negative point, a fall and a rise
LibSeries == {<<>>, <<0, 2>>, <<3, -1, 1>>}

SeqsUpTo(S, n) == UNION {[1..k -> S] : k \in 0..n}

\* ------------------------------------------------------ python helpers
\* the outcome of a call: the value it returns, or the exception it raises
Return(v) == [exc |-> "none", val |-> v]
Raise(name) == [exc |-> name, val |-> <<>>]
Raised(r) == r.exc # "none"

\* None
None == <<>>

Max(a, b) == IF a >= b THEN a ELSE b
Min(a, b) == IF a <= b THEN a ELSE b
Abs(x) == IF x < 0 THEN -x ELSE x

\* the number n as a rational
Num(n) == <<n, 1>>

\* float(pt) of an integer point
Float(pt) == <<pt, 1>>

\* int(x) of a number: truncation toward zero
PyInt(x) == IF x[1] >= 0 THEN x[1] \div x[2] ELSE -((-x[1]) \div x[2])

\* list[i:j] with Python's rules: a negative bound counts from the end, and
\* both bounds are then clamped into 0..len
SliceBound(n, i) == IF i < 0 THEN Max(i + n, 0) ELSE Min(i, n)
PySlice(s, i, j) == SubSeq(s, SliceBound(Len(s), i) + 1, SliceBound(Len(s), j))

\* the built-in sum over a sequence of ints
RECURSIVE PySum(_)
PySum(s) == IF s = <<>> THEN 0 ELSE s[1] + PySum(Tail(s))

\* b ** e for an int b and a natural e
RECURSIVE IntPow(_, _)
IntPow(b, e) == IF e = 0 THEN 1 ELSE b * IntPow(b, e - 1)

\* math.pow(x, alpha) for an integer x and an alpha with an integral value;
\* the libraries of this model are always built with such an alpha
math_pow(x, alpha) == IntPow(x, alpha[1] \div alpha[2])

\* dict.update
DictUpdate(d, o) ==
    [k \in DOMAIN d \cup DOMAIN o |-> IF k \in DOMAIN o THEN o[k] ELSE d[k]]

\* d[k] = v
DictSet(d, k, v) == [x \in DOMAIN d \cup {k} |-> IF x = k THEN v ELSE d[x]]

\* --------------------------------------------- TopicSeries.get_subseries
\* the windows the generator yields from position `index` on, in order
RECURSIVE SubseriesFrom(_, _, _)
SubseriesFrom(self, length, index) ==
    IF index + length <= Len(self)
    THEN <<PySlice(self, index, index + length)>>
         \o SubseriesFrom(self, length, index + 1)
    ELSE <<>>

RECURSIVE SubseriesFromLt(_, _, _)
SubseriesFromLt(self, length, index) ==
    IF index + length < Len(self)
    THEN <<PySlice(self, index, index + length)>>
         \o SubseriesFromLt(self, length, index + 1)
    ELSE <<>>

get_subseries_lt(self, length) == SubseriesFromLt(self, length, 0)

get_subseries(self, length) == SubseriesFrom(self, length, 0)

\* ------------------------------------------------------ transformations
unit_normalization(series, config) ==
    LET size == Len(series)
        Div(f) == <<f[1], f[2] * size>>
    IN  [i \in 1..Len(series) |-> Div(Float(series[i]))]

\* the loop of spike_normalization from position i on, prev_pt being the
\* raw point before it
RECURSIVE SpikeLoop(_, _, _, _)
SpikeLoop(series, alpha, i, prev_pt) ==
    IF i > Len(series) THEN <<>>
    ELSE LET pt == series[i]
             new_pt == IF pt = 0 THEN 0 ELSE math_pow(Abs(pt - prev_pt), alpha)
         IN  <<new_pt>> \o SpikeLoop(series, alpha, i + 1, pt)

spike_normalization_noabs(series, config) ==
    LET alpha == config["alpha"]
        F[i \in 1..Len(series)] ==
            LET pt == series[i]
                prev_pt == IF i = 1 THEN 0 ELSE series[i - 1]
            IN  IF pt = 0 THEN 0 ELSE math_pow(pt - prev_pt, alpha)
    IN  F

spike_normalization(series, config) ==
    LET alpha == config["alpha"]
    IN  SpikeLoop(series, alpha, 1, 0)

\* the loop of smoothing from position i on, `queue` holding the deque
RECURSIVE SmoothLoop(_, _, _, _)
SmoothLoop(series, N_smooth, i, queue) ==
    IF i > Len(series) THEN <<>>
    ELSE LET q1 == Append(queue, series[i])
             q2 == IF Len(q1) > N_smooth THEN Tail(q1) ELSE q1
         IN  <<PySum(q2)>> \o SmoothLoop(series, N_smooth, i + 1, q2)

RECURSIVE SmoothLoopGe(_, _, _, _)
SmoothLoopGe(series, N_smooth, i, queue) ==
    IF i > Len(series) THEN <<>>
    ELSE LET q1 == Append(queue, series[i])
             q2 == IF Len(q1) >= N_smooth THEN Tail(q1) ELSE q1
         IN  <<PySum(q2)>> \o SmoothLoopGe(series, N_smooth, i + 1, q2)

smoothing_ge(series, config) ==
    SmoothLoopGe(series, PyInt(config["n_smooth"]), 1, <<>>)

smoothing(series, config) ==
    LET N_smooth == PyInt(config["n_smooth"])
    IN  SmoothLoop(series, N_smooth, 1, <<>>)

\* math.log10(pt + 1) of a float pt: a domain error unless pt + 1 > 0
math_log10_plus1(pt) ==
    IF pt[1] + pt[2] <= 0 THEN Raise("ValueError")
    ELSE Return([log10 |-> <<pt[1] + pt[2], pt[2]>>])

\* min(series) raises on an empty list; its value is not used
logarithmic_scaling(series, config) ==
    IF series = <<>> THEN Raise("ValueError")
    ELSE LET new_pt == [i \in 1..Len(series) |-> math_log10_plus1(series[i])]
         IN  IF \E i \in 1..Len(series) : Raised(new_pt[i])
             THEN Raise("ValueError")
             ELSE Return([i \in 1..Len(series) |-> new_pt[i].val])

\* ---------------------------------------------------------------- sizing
\* the loop of sizing's trend branch from position i on; the result is
\* max_idx, None when no point exceeded the initial max_pt
InitMaxPt == -5000

RECURSIVE MaxIdxLoop(_, _, _, _)
MaxIdxLoop(series, i, max_idx, max_pt) ==
    IF i > Len(series) THEN max_idx
    ELSE IF series[i] > max_pt
         THEN MaxIdxLoop(series, i + 1, <<i - 1>>, series[i])
         ELSE MaxIdxLoop(series, i + 1, max_idx, max_pt)

\* every outcome sizing can have: the non-trend branch draws its offset with
\* random.randint, which raises on an empty range
sizing(series, config) ==
    LET size_r == PyInt(config["reference_length"])
    IN  IF config["is_trend"]
        THEN LET max_idx == MaxIdxLoop(series, 1, None, InitMaxPt)
             IN  IF max_idx = None THEN {Raise("TypeError")}
                 ELSE {Return(PySlice(series, max_idx[1] - size_r, max_idx[1]))}
        ELSE IF Len(series) - size_r < 0 THEN {Raise("ValueError")}
             ELSE {Return(PySlice(series, index, index + size_r)) :
                       index \in 0..(Len(series) - size_r)}

\* --------------------------------------------------------------- Library
LibOrder == <<"a", "b">>
LibIds == {LibOrder[i] : i \in 1..Len(LibOrder)}

\* the default values of Library.__init__
DefaultConfig == [reference_length |-> Num(210), n_smooth |-> Num(80), alpha |-> <<12, 10>>]

set_up_transformations_swapped ==
    <<"smoothing", "spike_normalization", "unit_normalization",
      "logarithmic_scaling">>

\* the list self.transformations, by function name
set_up_transformations ==
    <<"spike_normalization", "smoothing", "unit_normalization",
      "logarithmic_scaling">>

\* Library(**kwargs): the attributes of the new object, its two lists by
\* their contents
LibraryInit(kwargs) ==
    IF "config" \notin DOMAIN kwargs THEN Raise("KeyError")
    ELSE Return([trends |-> <<>>, non_trends |-> <<>>,
                 config |-> DictUpdate(DefaultConfig, kwargs["config"]),
                 transformations |-> set_up_transformations])

\* transformation(series, self.config) for one entry of the list
Apply(transformation, series, config) ==
    CASE transformation = "spike_normalization" ->
             Return(spike_normalization(series, config))
      [] transformation = "smoothing" -> Return(smoothing(series, config))
      [] transformation = "unit_normalization" ->
             Return(unit_normalization(series, config))
      [] transformation = "logarithmic_scaling" ->
             logarithmic_scaling(series, config)

\* the outcomes of the stages transform_input runs, in order, up to and
\* including the first that raises
RECURSIVE TransformTrace(_, _, _, _)
TransformTrace(transformations, i, series, config) ==
    IF i > Len(transformations) THEN <<>>
    ELSE LET out == Apply(transformations[i], series, config)
         IN  IF Raised(out) THEN <<out>>
             ELSE <<out>> \o TransformTrace(transformations, i + 1, out.val, config)

transform_input(transformations, series, config) ==
    LET trace == TransformTrace(transformations, 1, series, config)
    IN  IF trace = <<>> THEN Return(series) ELSE trace[Len(trace)]

\* TopicSeries(series): a new list with the elements of series
TopicSeries(series) == [i \in 1..Len(series) |-> series[i]]

\* ----------------------------------------------------------------- state
VARIABLES
    libs,   \* the Library objects: trends and non_trends are references
    heap,   \* the contents of every list object, by reference
    file,   \* the backing file: absent, empty, or a pickled Library
    last    \* the most recent call with its arguments and its outcome

vars == <<libs, heap, file, last>>

\* list objects: two per Library, and two for the one merge_library loads
Refs == 1..(2 * (Cardinality(LibIds) + 1))

Referenced(L) == UNION {{L[l].trends, L[l].non_trends} : l \in LibIds}

\* a list object no Library refers to, for a newly created list
Fresh(used) == CHOOSE r \in Refs \ used : \A q \in Refs \ used : r <= q

\* list objects no Library refers to any more are reclaimed
Collect(L, H) == [r \in Refs |-> IF r \in Referenced(L) THEN H[r] ELSE <<>>]

\* the number of series the list objects of R hold together
RECURSIVE Stored(_, _)
Stored(H, R) ==
    IF R = {} THEN 0
    ELSE LET r == CHOOSE x \in R : TRUE IN Len(H[r]) + Stored(H, R \ {r})

\* an object with the attributes of v, its two lists newly created in H
NewObject(v, used) ==
    LET t == Fresh(used)
        n == Fresh(used \cup {t})
    IN  [trends |-> t, non_trends |-> n, config |-> v.config,
         transformations |-> v.transformations]

\* what pickle writes for an object: its attributes, the lists by contents
Pickled(obj, H) ==
    [trends |-> H[obj.trends], non_trends |-> H[obj.non_trends],
     config |-> obj.config, transformations |-> obj.transformations]

\* the config overrides the libraries of the model are constructed with
LibOverrides ==
    {[n_smooth |-> Num(1), alpha |-> Num(1)],
     [n_smooth |-> Num(2), alpha |-> Num(2)]}

NoCall == [op |-> "none", args |-> <<>>, exc |-> "none", ret |-> None]
Call(op, args, exc, ret) == [op |-> op, args |-> args, exc |-> exc, ret |-> ret]

\* the libraries constructed one after the other, each with the two list
\* objects its constructor creates
RECURSIVE Construct(_, _, _)
Construct(i, o, L) ==
    IF i > Len(LibOrder) THEN L
    ELSE LET v == LibraryInit([config |-> o[LibOrder[i]]]).val
             used == UNION {{L[l].trends, L[l].non_trends} : l \in DOMAIN L}
         IN  Construct(i + 1, o, [l \in DOMAIN L \cup {LibOrder[i]} |->
                 IF l = LibOrder[i] THEN NewObject(v, used) ELSE L[l]])

Init ==
    /\ \E o \in [LibIds -> LibOverrides] : libs = Construct(1, o, <<>>)
    /\ heap = [r \in Refs |-> <<>>]
    /\ file = [kind |-> "absent"]
    /\ last = NoCall

\* ------------------------------------------------------ Library methods
\* self.add_series(series, is_trend): the exception raised if any, self and
\* the heap afterwards
add_series(self, H, series, is_trend) ==
    LET config == DictSet(self.config, "is_trend", is_trend)
        self1 == [self EXCEPT !.config = config]
        out == transform_input(self.transformations, series, config)
        list == IF is_trend THEN self.trends ELSE self.non_trends
    IN  IF Raised(out) THEN [exc |-> out.exc, self |-> self1, heap |-> H]
        ELSE [exc |-> "none", self |-> self1,
              heap |-> [H EXCEPT ![list] = Append(@, TopicSeries(out.val))]]

combine_noassert(self, lib, H) ==
    LET s1 == IF H[lib.trends] # <<>>
              THEN [self EXCEPT !.trends = lib.trends] ELSE self
        s2 == IF H[lib.non_trends] # <<>>
              THEN [s1 EXCEPT !.non_trends = lib.non_trends] ELSE s1
    IN  [exc |-> "none", self |-> s2]

combine_skip(self, lib, H) ==
    LET fail == \/ H[lib.trends] # <<>> /\ H[self.trends] # <<>>
                \/ H[lib.non_trends] # <<>> /\ H[self.non_trends] # <<>>
        s1 == IF H[lib.trends] # <<>>
              THEN [self EXCEPT !.trends = lib.trends] ELSE self
    IN  IF fail THEN [exc |-> "AssertionError", self |-> self]
        ELSE [exc |-> "none", self |-> s1]

\* self.combine(lib): the exception raised if any, and self afterwards
combine(self, lib, H) ==
    LET fail1 == H[lib.trends] # <<>> /\ ~(H[self.trends] = <<>>)
        s1 == IF H[lib.trends] # <<>> /\ ~fail1
              THEN [self EXCEPT !.trends = lib.trends] ELSE self
        fail2 == H[lib.non_trends] # <<>> /\ ~(H[s1.non_trends] = <<>>)
        s2 == IF H[lib.non_trends] # <<>> /\ ~fail2
              THEN [s1 EXCEPT !.non_trends = lib.non_trends] ELSE s1
    IN  IF fail1 THEN [exc |-> "AssertionError", self |-> self]
        ELSE IF fail2 THEN [exc |-> "AssertionError", self |-> s1]
        ELSE [exc |-> "none", self |-> s2]

\* ------------------------------------------------------------ persistence
\* load_library(file_name): open raises on a missing file; pickle.load
\* raises EOFError on an empty one, which is answered with Library()
load_library(F) ==
    CASE F.kind = "absent" -> Raise("IOError")
      [] F.kind = "empty" -> LibraryInit(<<>>)
      [] F.kind = "pickle" -> Return(F.obj)

\* ---------------------------------------------------------------- actions
AddSeries(l, series, is_trend) ==
    /\ Stored(heap, Refs) < MaxStored
    /\ LET r == add_series(libs[l], heap, series, is_trend)
       IN  /\ libs' = [libs EXCEPT ![l] = r.self]
           /\ heap' = r.heap
           /\ last' = Call("add_series", <<l, series, is_trend>>, r.exc, None)
    /\ UNCHANGED file

Combine(l, m) ==
    /\ LET r == combine(libs[l], libs[m], heap)
           L == [libs EXCEPT ![l] = r.self]
       IN  /\ libs' = L
           /\ heap' = Collect(L, heap)
           /\ last' = Call("combine", <<l, m>>, r.exc, None)
    /\ UNCHANGED file

SaveLibrary(l) ==
    /\ file' = [kind |-> "pickle", obj |-> Pickled(libs[l], heap)]
    /\ last' = Call("save_library", <<l>>, "none", None)
    /\ UNCHANGED <<libs, heap>>

\* libs[l] = load_library(file_name)
LoadLibrary(l) ==
    /\ LET r == load_library(file)
           obj == NewObject(r.val, Referenced(libs))
           L == [libs EXCEPT ![l] = obj]
           H == [heap EXCEPT ![obj.trends] = r.val.trends,
                             ![obj.non_trends] = r.val.non_trends]
       IN  IF Raised(r)
           THEN /\ UNCHANGED <<libs, heap>>
                /\ last' = Call("load_library", <<l>>, r.exc, None)
           ELSE /\ libs' = L
                /\ heap' = Collect(L, H)
                /\ last' = Call("load_library", <<l>>, "none", None)
    /\ UNCHANGED file

\* merge_library(libs[l], file_name)
MergeLibrary(l) ==
    /\ IF file.kind # "absent"
       THEN LET r == load_library(file)
                lib_from_file == NewObject(r.val, Referenced(libs))
                H == [heap EXCEPT ![lib_from_file.trends] = r.val.trends,
                                  ![lib_from_file.non_trends] = r.val.non_trends]
                c == combine(libs[l], lib_from_file, H)
                L == [libs EXCEPT ![l] = c.self]
            IN  IF Raised(r)
                THEN /\ UNCHANGED <<libs, heap>>
                     /\ last' = Call("merge_library", <<l>>, r.exc, None)
                ELSE /\ libs' = L
                     /\ heap' = Collect(L, H)
                     /\ last' = Call("merge_library", <<l>>, c.exc, None)
       ELSE /\ UNCHANGED <<libs, heap>>
            /\ last' = Call("merge_library", <<l>>, "none", None)
    /\ UNCHANGED file

\* the environment leaves an empty backing file, or removes it
SetFile(kind) ==
    /\ file' = [kind |-> kind]
    /\ last' = NoCall
    /\ UNCHANGED <<libs, heap>>

\* Library objects in memory: add_series and combine
Next ==
    \/ \E l \in LibIds, series \in LibSeries, is_trend \in BOOLEAN :
          AddSeries(l, series, is_trend)
    \/ \E l, m \in LibIds : Combine(l, m)

Spec == Init /\ [][Next]_vars

\* one Library and its backing file, as the module's main uses them
MainLib == LibOrder[1]

NextFile ==
    \/ \E series \in LibSeries, is_trend \in BOOLEAN :
          AddSeries(MainLib, series, is_trend)
    \/ SaveLibrary(MainLib)
    \/ LoadLibrary(MainLib)
    \/ MergeLibrary(MainLib)
    \/ \E kind \in {"absent", "empty"} : SetFile(kind)

SpecFile == Init /\ [][NextFile]_vars

\* ------------------------------------------------- the functions, called
\* each action calls one function of the module, once, on inputs of its own
\* and records the outcome in `last`
FnSeries == SeqsUpTo(Points, MaxLen)

ConfigWith(o) == DictUpdate(DefaultConfig, o)

CallGetSubseries(self, length) ==
    /\ last = NoCall
    /\ last' = Call("get_subseries", <<self, length>>, "none",
                    get_subseries(self, length))
    /\ UNCHANGED <<libs, heap, file>>

CallSmoothing(series, n_smooth) ==
    /\ last = NoCall
    /\ LET config == ConfigWith([n_smooth |-> Num(n_smooth)])
       IN  last' = Call("smoothing", <<series, config>>, "none",
                        smoothing(series, config))
    /\ UNCHANGED <<libs, heap, file>>

CallTransformInput(series, n_smooth, alpha) ==
    /\ last = NoCall
    /\ LET config == ConfigWith([n_smooth |-> Num(n_smooth),
                                 alpha |-> Num(alpha), is_trend |-> TRUE])
           out == transform_input(set_up_transformations, series, config)
       IN  last' = Call("transform_input", <<series, config>>, out.exc,
                        TransformTrace(set_up_transformations, 1, series, config))
    /\ UNCHANGED <<libs, heap, file>>

CallSizing(series, reference_length, is_trend) ==
    /\ last = NoCall
    /\ LET config == ConfigWith([reference_length |-> Num(reference_length),
                                 is_trend |-> is_trend])
       IN  \E out \in sizing(series, config) :
               last' = Call("sizing", <<series, config>>, out.exc, out.val)
    /\ UNCHANGED <<libs, heap, file>>

InitFn ==
    /\ libs = Construct(1, [l \in LibIds |-> [n_smooth |-> Num(1), alpha |-> Num(1)]],
                        <<>>)
    /\ heap = [r \in Refs |-> <<>>]
    /\ file = [kind |-> "absent"]
    /\ last = NoCall

NextFn ==
    \/ /\ last = NoCall
       /\ \E self \in FnSeries, length \in 0..MaxWidth :
             CallGetSubseries(self, length)
    \/ /\ last = NoCall
       /\ \E series \in FnSeries, n_smooth \in (-1)..MaxWidth :
             CallSmoothing(series, n_smooth)
    \/ /\ last = NoCall
       /\ \E series \in FnSeries, n_smooth \in 1..MaxWidth, alpha \in 1..MaxAlpha :
             CallTransformInput(series, n_smooth, alpha)
    \/ /\ last = NoCall
       /\ \E series \in FnSeries, reference_length \in 0..MaxWidth,
             is_trend \in BOOLEAN :
             CallSizing(series, reference_length, is_trend)

SpecFn == InitFn /\ [][NextFn]_vars

\* ------------------------------------------------------------ properties
Labels == {"trends", "non_trends"}

\* the series a Library holds under a label
Held(L, H, l, label) == H[L[l][label]]

\* the 0-based positions lo..hi of s, summed
RECURSIVE SumRange(_, _, _)
SumRange(s, lo, hi) == IF lo > hi THEN 0 ELSE s[lo + 1] + SumRange(s, lo + 1, hi)

\* C1: a combine call made while self and other both hold a series under
\* the same label (trends, or non_trends) raises AssertionError.
CombineCollisionRaises ==
    [][(/\ last'.op = "combine"
        /\ \E label \in Labels :
              /\ Held(libs, heap, last'.args[1], label) # <<>>
              /\ Held(libs, heap, last'.args[2], label) # <<>>)
       => last'.exc = "AssertionError"]_vars

\* a combine of two distinct libraries that both held trends has raised
CombineCollisionWitness ==
    /\ last.op = "combine"
    /\ last.exc = "AssertionError"
    /\ last.args[1] # last.args[2]
    /\ libs[last.args[1]].trends # libs[last.args[2]].trends
    /\ Held(libs, heap, last.args[1], "trends") # <<>>
    /\ Held(libs, heap, last.args[2], "trends") # <<>>

\* C2: a combine call that returns leaves, for each label, self's series
\* unchanged when other's collection was empty and equal to other's series
\* when it was not; self's config is unchanged.
CombineEffect ==
    [][(last'.op = "combine" /\ last'.exc = "none")
       => LET self == last'.args[1]
              other == last'.args[2]
          IN  /\ \A label \in Labels :
                    IF Held(libs, heap, other, label) = <<>>
                    THEN Held(libs', heap', self, label)
                             = Held(libs, heap, self, label)
                    ELSE /\ Held(libs, heap, self, label) = <<>>
                         /\ Held(libs', heap', self, label)
                               = Held(libs, heap, other, label)
              /\ libs'[self].config = libs[self].config]_vars

\* a library holding only non-trends has absorbed the trends of a library
\* holding only trends, and now holds both
CombineEffectWitness ==
    /\ last.op = "combine"
    /\ last.exc = "none"
    /\ last.args[1] # last.args[2]
    /\ Held(libs, heap, last.args[2], "non_trends") = <<>>
    /\ Held(libs, heap, last.args[2], "trends") # <<>>
    /\ Held(libs, heap, last.args[1], "non_trends") # <<>>
    /\ Held(libs, heap, last.args[1], "trends")
          = Held(libs, heap, last.args[2], "trends")

\* C3: get_subseries(L) on a series of length N yields max(0, N - L + 1)
\* windows, the k-th (from 0) being the elements at positions k .. k + L - 1.
SubseriesWindows ==
    last.op = "get_subseries"
    => LET self == last.args[1]
           L == last.args[2]
           windows == last.ret
       IN  /\ Len(windows) = Max(0, Len(self) - L + 1)
           /\ \A k \in 0..(Len(windows) - 1) :
                 windows[k + 1] = [j \in 1..L |-> self[k + j]]

\* several windows of several elements were yielded
SubseriesWindowsWitness ==
    /\ last.op = "get_subseries"
    /\ last.args[2] >= 2
    /\ Len(last.ret) >= 2
    /\ last.ret[1] # last.ret[2]

\* C4: smoothing returns a series of the input's length whose element at
\* position i is the sum of the inputs at positions max(0, i - w + 1) .. i,
\* w being n_smooth.
SmoothingMovingSum ==
    last.op = "smoothing"
    => LET S == last.args[1]
           w == last.args[2]["n_smooth"][1]
           out == last.ret
       IN  /\ Len(out) = Len(S)
           /\ \A i \in 0..(Len(S) - 1) :
                 out[i + 1] = SumRange(S, Max(0, i - w + 1), i)

\* a window of two or more inputs has slid past a non-zero first input
SmoothingWitness ==
    /\ last.op = "smoothing"
    /\ last.args[2]["n_smooth"][1] >= 2
    /\ Len(last.args[1]) > last.args[2]["n_smooth"][1]
    /\ last.args[1][1] # 0
    /\ last.ret[Len(last.ret)] # PySum(last.args[1])

\* C5: add_series of a non-empty raw series returns, having appended to the
\* collection of its label the series that logarithmic scaling of unit
\* normalization of smoothing of spike normalization gives, of the raw
\* series' length; the series stored before and the collection of the other
\* label are unchanged.
AddSeriesAppends ==
    [][(last'.op = "add_series" /\ last'.args[2] # <<>>)
       => \E l \in {last'.args[1]}, series \in {last'.args[2]},
             label \in {IF last'.args[3] THEN "trends" ELSE "non_trends"} :
          \E config \in {libs[l].config} :
          \E spiked \in {spike_normalization(series, config)} :
          \E smoothed \in {smoothing(spiked, config)} :
          \E normalized \in {unit_normalization(smoothed, config)} :
          \E expected \in {logarithmic_scaling(normalized, config)} :
              /\ last'.exc = "none"
              /\ expected.exc = "none"
              /\ Len(expected.val) = Len(series)
              /\ libs'[l].trends = libs[l].trends
              /\ libs'[l].non_trends = libs[l].non_trends
              /\ Held(libs', heap', l, label)
                    = Append(Held(libs, heap, l, label), expected.val)
              /\ \A other \in Labels \ {label} :
                    Held(libs', heap', l, other) = Held(libs, heap, l, other)]_vars

\* a three-point series was appended behind an earlier one of the label
AddSeriesWitness ==
    /\ last.op = "add_series"
    /\ last.exc = "none"
    /\ Len(last.args[2]) = 3
    /\ LET held == Held(libs, heap, last.args[1],
                        IF last.args[3] THEN "trends" ELSE "non_trends")
       IN  Len(held) >= 2 /\ held[1] # held[Len(held)]

\* C6: in the pipeline, spike normalization yields no negative value and 0
\* where the raw point is 0, smoothing and unit normalization yield no
\* negative value, and every value logarithmic scaling receives exceeds -1.
PipelineNonNegative ==
    last.op = "transform_input"
    => LET raw == last.args[1]
           trace == last.ret
       IN  /\ Len(trace) >= 3
           /\ \A i \in 1..Len(raw) :
                 /\ trace[1].val[i] >= 0
                 /\ raw[i] = 0 => trace[1].val[i] = 0
                 /\ trace[2].val[i] >= 0
                 /\ trace[3].val[i][1] >= 0 /\ trace[3].val[i][2] > 0
                 /\ trace[3].val[i][1] + trace[3].val[i][2] > 0
           /\ raw # <<>> => Len(trace) = 4 /\ last.exc = "none"

\* the pipeline ran to its end on a series with a negative point and a fall
PipelineWitness ==
    /\ last.op = "transform_input"
    /\ last.exc = "none"
    /\ Len(last.ret) = 4
    /\ \E i \in 2..Len(last.args[1]) :
          last.args[1][i] < 0 /\ last.args[1][i] < last.args[1][i - 1]

\* C7: sizing with reference_length greater than the length of the series
\* raises, whichever the label.
SizingTooShortRaises ==
    (/\ last.op = "sizing"
     /\ last.args[2]["reference_length"][1] > Len(last.args[1]))
    => last.exc # "none"

\* C8: loading from an empty backing file returns a Library with no series,
\* and merge_library on an empty file returns without an exception.
LoadEmptyYieldsFresh ==
    /\ (last.op = "load_library" /\ file.kind = "empty")
       => /\ last.exc = "none"
          /\ \A label \in Labels : Held(libs, heap, last.args[1], label) = <<>>
    /\ (last.op = "merge_library" /\ file.kind = "empty")
       => last.exc = "none"

\* C9: a combine call that raises leaves both collections of self as they
\* were.
CombineFailureKeepsSelf ==
    [][(last'.op = "combine" /\ last'.exc = "AssertionError")
       => \A label \in Labels :
             Held(libs', heap', last'.args[1], label)
                 = Held(libs, heap, last'.args[1], label)]_vars

\* C10: add_series on one library leaves the collections of every other
\* library as they were, also after the two have been combined.
AddSeriesKeepsOthers ==
    [][last'.op = "add_series"
       => \A m \in LibIds \ {last'.args[1]} : \A label \in Labels :
             Held(libs', heap', m, label) = Held(libs, heap, m, label)]_vars
====
